---- MODULE Spec2Model ----
(***************************************************************************)
(* A model of timerit (src/timerit/core.py): the Timer stopwatch, the      *)
(* Timerit trial loop (a generator suspended at `yield fg_timer`), the     *)
(* garbage-collector scope _SetGCState, reset, and the statistics that a   *)
(* completed run records into `measures`.                                  *)
(*                                                                         *)
(* The clock is a caller-supplied counter (Timer.__init__, counter is a    *)
(* callable): every read advances it by `inc` (the tests' HackedTime) and  *)
(* caller code may advance it by hand (the tests' ManualTime.tic).         *)
(* Durations are exact integers; a mean is kept as the fraction sum/n and  *)
(* a standard deviation as the square root of a fraction, so no rounding   *)
(* is modelled.                                                            *)
(***************************************************************************)
EXTENDS Integers, Sequences, FiniteSets

\* ------------------------------------------------------------------ bounds
MaxNum == 2
MaxBestof == 2
MaxRuns == 2
MaxTicks == 2
TimingNum == 3
TimingTick == 2
FixNum == 4
FixInc == 3
ScopedNum == 3
ScopedTick == 2
CallNum == 3
TimerInc == 2
MaxClock == 8
StatNum == 4
StatBestof == 3
StatTick == 2
RankNum == 2
RankTick == 3
RankTicks == 3
RelMax == 3
UnitNear == 2
ReportNum == 2
ReportBestof == 2
ReportTicks == 1
AdaptNum == 3
ReuseNum == 2
ReuseTicks == 2
TwoNum == 2
MinDuration == 100

\* --------------------------------------------------------------- constants
\* Python's None, for n_loops and total_time (never used in arithmetic).
None == -2
\* Timer._raw_elapsed / _raw_tstart before the first tic/toc.
Sentinel == -1
\* Timer._to_seconds when the counter is a callable.
to_seconds == 1
\* ManualTime.tic(n=1): the default step of a manual clock tick.
TickStep == 1

\* Timerit._default_precision
default_precision == 3
\* Timerit.__init__: bestof=3
default_bestof == 3
\* HackedTimerit: inc = kw.pop('inc', 42)
HackInc == 42

NoLabel == "<None>"
\* unit=None
NoUnit == "<None>"
\* The units of _choose_unit in the order of its OrderedDict, and the
\* exponent e of each scale 10^-e.
UnitNames == <<"s", "ms", "us", "ns">>
UnitExp == [u \in {"s", "ms", "us", "ns"} |->
              CASE u = "s" -> 0 [] u = "ms" -> 3 [] u = "us" -> 6 [] u = "ns" -> 9]
\* A unit name _choose_unit does not know.
BadUnit == "m"
\* The rendering of the micro sign followed by s.
MicroSign == "mu-s"
Stats == <<"mean", "min", "mean-std", "mean+std">>
StatNames == {Stats[i] : i \in 1..Len(Stats)}
Verbosities == 0..3
Incs == {0, 1}
Labels == {NoLabel, "a", "b"}
MaxLabels == Cardinality(Labels)
LabelArgs == {NoLabel, "", "b"}
RankLabels == <<"a", "b", "c">>

VARIABLES
    num, bestof, verbose, disable_gc,        \* constructor arguments
    label, times, total_time, n_loops,       \* Timerit attributes
    measures,
    bg_timer, fg_timer,                      \* the two Timer objects
    timer,                                   \* a Timer used on its own
    time, inc,                               \* the clock behind both timers
    amb, work,                               \* clock ticks a scripted caller makes
    gc_enabled, prev,                        \* gc.isenabled(), _SetGCState.prev
    pc, rep,                                 \* generator position, it.repeat count
    cpos, acted,                             \* caller body position
    out,                                     \* lines printed to stdout
    gc_before, scoped, clean, runs, exc,     \* history of the run
    nticks,                                  \* manual clock ticks so far
    ret,                                     \* outcome of the latest query
    unit, precision,                         \* display unit, _precision
    min_duration,                            \* keyword handed to the constructor
    other                                    \* a second session's trial loop

vars == <<num, bestof, verbose, disable_gc, label, times, total_time, n_loops,
          measures, bg_timer, fg_timer, time, inc, amb, work, gc_enabled, prev,
          pc, rep,
          cpos, acted, out, gc_before, scoped, clean, runs, exc, nticks, ret,
          timer, unit, precision, min_duration, other>>

\* What no method of the session changes: the constructor's arguments, the
\* clock's configuration and the state of the other session.
config == <<num, bestof, verbose, disable_gc, inc, amb, work, unit, precision,
            min_duration, other>>
queried == <<ret, timer>>
history == <<gc_before, scoped, clean, runs, exc, nticks>>

\* ---------------------------------------------------------- pure helpers
RECURSIVE Sum(_)
Sum(s) == IF s = <<>> THEN 0 ELSE Head(s) + Sum(Tail(s))

RECURSIVE minOf(_)
minOf(s) == IF Len(s) = 1 THEN s[1]
            ELSE LET m == minOf(Tail(s)) IN IF s[1] <= m THEN s[1] ELSE m

Truthy(l) == l # NoLabel /\ l # ""

\* A chunking that drops a last chunk shorter than size.
chunks_whole(seq, size) ==
    [i \in 1..(Len(seq) \div size) |->
       SubSeq(seq, (i - 1) * size + 1, i * size)]

\* _chunks(seq, size): seq[pos:pos + size] for pos in range(0, len(seq), size)
chunks(seq, size) ==
    LET n == Len(seq)
        cnt == (n + size - 1) \div size
    IN [i \in 1..cnt |->
          SubSeq(seq, (i - 1) * size + 1,
                 IF i * size <= n THEN i * size ELSE n)]

\* Timerit.robust_times: list(map(min, _chunks(self.times, self.bestof)))
robust_times(ts, k) ==
    LET c == chunks(ts, k) IN [i \in 1..Len(c) |-> minOf(c[i])]

\* A statistic is the number p/n + s * sqrt(q / n^3), s in {-1, 0, 1}.
Val(p, n, q, s) == [s |-> s, n |-> n, p |-> p, q |-> q]

\* Timerit.min: min(self.times)
min(ts) == minOf(ts)

\* A mean that is 0 when there are no samples.
mean_or_zero(ts, k) ==
    LET r == robust_times(ts, k)
    IN [n |-> IF r = <<>> THEN 1 ELSE Len(r), p |-> Sum(r)]

\* A mean over the raw samples.
mean_raw(ts, k) == [n |-> Len(ts), p |-> Sum(ts)]

\* Timerit.mean: sum(times) / len(times) over the robust times, as the
\* fraction p/n.
mean(ts, k) ==
    LET r == robust_times(ts, k) IN [n |-> Len(r), p |-> Sum(r)]

\* Timerit.std: sqrt(sum((t - mean) ** 2) / len(times)) over the robust
\* times; with mean = p/n this is sqrt(q / n^3), q = sum((n*t - p)^2).
std(ts, k) ==
    LET r == robust_times(ts, k)
        m == mean(ts, k)
        d == [i \in 1..Len(r) |-> (m.n * r[i] - m.p) * (m.n * r[i] - m.p)]
    IN [n |-> m.n, q |-> Sum(d)]

\* An assignment that always adds a new item.
setitem_append(d, key, val) == Append(d, [k |-> key, v |-> val])

\* d[key] = val on an insertion-ordered dict kept as a sequence of items.
setitem(d, key, val) ==
    IF \E i \in 1..Len(d) : d[i].k = key
    THEN [i \in 1..Len(d) |-> IF d[i].k = key THEN [k |-> key, v |-> val] ELSE d[i]]
    ELSE Append(d, [k |-> key, v |-> val])

\* measures[stat] on the defaultdict(dict)
getstat(ms, s) == IF s \in DOMAIN ms THEN ms[s] ELSE <<>>

keys(d) == {d[i].k : i \in 1..Len(d)}
lookup(d, key) == d[CHOOSE i \in 1..Len(d) : d[i].k = key].v

EmptyMeasures == [s \in {} |-> <<>>]

\* What a query on the session gave: the value it returned or the
\* exception it raised.
NoRet == [op |-> "none"]
Returned(o, v) == [val |-> v, op |-> o]
ReturnedSelf(o) == [op |-> o, self |-> TRUE]
Raised(o, e) == [op |-> o, err |-> e]

\* A recording that files every run under the missing label.
record_measurement_nolabel(ms, lab, ts, k) ==
    LET m == [n |-> Len(ts), p |-> Sum(ts)]
    IN [s \in StatNames |-> setitem(getstat(ms, s), NoLabel, Val(m.p, m.n, 0, 0))]

\* Timerit._record_measurement
record_measurement(ms, lab, ts, k) ==
    LET m == mean(ts, k)
        sd == std(ts, k)
        val == [s \in StatNames |->
                 CASE s = "mean" -> Val(m.p, m.n, 0, 0)
                   [] s = "min" -> Val(min(ts), 1, 0, 0)
                   [] s = "mean-std" -> Val(m.p, m.n, sd.q, -1)
                   [] s = "mean+std" -> Val(m.p, m.n, sd.q, 1)]
    IN [s \in StatNames |-> setitem(getstat(ms, s), lab, val[s])]

\* a < b for two values p/n + s * sqrt(q / n^3) of one statistic (same s),
\* decided exactly in integers: with d = b.p * a.n - a.p * b.n,
\* X = a.q * b.n^3, Y = b.q * a.n^3 and E = d^2 * a.n * b.n the question is
\* whether s * (sqrt(X) - sqrt(Y)) < sign(d) * sqrt(E).
Less(a, b) ==
    LET d == b.p * a.n - a.p * b.n
        X == a.q * b.n * b.n * b.n
        Y == b.q * a.n * a.n * a.n
        E == d * d * a.n * b.n
        T == X + Y - E
        sgnL == IF X = Y THEN 0 ELSE IF X > Y THEN a.s ELSE 0 - a.s
    IN CASE sgnL = 0 -> d > 0
         [] sgnL < 0 -> d >= 0 \/ (T > 0 /\ T * T > 4 * X * Y)
         [] sgnL > 0 -> d > 0 /\ (T < 0 \/ T * T < 4 * X * Y)

\* sorted(d.items(), key=lambda kv: kv[1]): ascending by value, items of
\* equal value in their order of insertion (the sort is stable).
sorted_reverse(d) ==
    LET pos(i) == 1 + Cardinality({j \in 1..Len(d) : Less(d[i].v, d[j].v)})
                    + Cardinality({j \in 1..Len(d) :
                                     /\ j < i
                                     /\ ~Less(d[j].v, d[i].v)
                                     /\ ~Less(d[i].v, d[j].v)})
    IN [r \in 1..Len(d) |-> d[CHOOSE i \in 1..Len(d) : pos(i) = r]]

sorted(d) ==
    LET pos(i) == 1 + Cardinality({j \in 1..Len(d) : Less(d[j].v, d[i].v)})
                    + Cardinality({j \in 1..Len(d) :
                                     /\ j < i
                                     /\ ~Less(d[j].v, d[i].v)
                                     /\ ~Less(d[i].v, d[j].v)})
    IN [r \in 1..Len(d) |-> d[CHOOSE i \in 1..Len(d) : pos(i) = r]]

\* Timerit.rankings: every statistic's items, sorted
rankings(ms) == [s \in DOMAIN ms |-> sorted(ms[s])]

\* A consistency that returns the averaged Hamming distance itself.
consistency_hamming(ms) ==
    LET rk == rankings(ms)
        present == SelectSeq(Stats, LAMBDA s : s \in DOMAIN rk)
        pairs == {c \in (1..Len(present)) \X (1..Len(present)) : c[1] < c[2]}
        num_labels == Len(rk[present[1]])
    IN [n |-> Cardinality(pairs) * num_labels,
        p |-> Cardinality({b \in pairs \X (1..num_labels) :
                             rk[present[b[1][1]]][b[2]].k
                                # rk[present[b[1][2]]][b[2]].k})]

\* Timerit.consistency after the check for no measurements: the score
\* 1 - hamming_sum / num_bits as the fraction (num_bits - hamming_sum) /
\* num_bits.
consistency(ms) ==
    LET rk == rankings(ms)
        present == SelectSeq(Stats, LAMBDA s : s \in DOMAIN rk)
        num_metrics == Len(present)
        pairs == {c \in (1..num_metrics) \X (1..num_metrics) : c[1] < c[2]}
        zipped(c) == IF Len(rk[present[c[1]]]) <= Len(rk[present[c[2]]])
                     THEN 1..Len(rk[present[c[1]]])
                     ELSE 1..Len(rk[present[c[2]]])
        hamming_sum ==
            Cardinality({b \in pairs \X (1..MaxLabels) :
                           /\ b[2] \in zipped(b[1])
                           /\ rk[present[b[1][1]]][b[2]].k
                                # rk[present[b[1][2]]][b[2]].k})
        num_labels == Len(rk[present[1]])
        num_bits == ((num_metrics * (num_metrics - 1)) \div 2) * num_labels
    IN [n |-> num_bits, p |-> num_bits - hamming_sum]

\* ---------------------------------------------------------- Relative
\* A number as the fraction p/n in lowest terms, n > 0.
RECURSIVE gcd(_, _)
gcd(a, b) == IF b = 0 THEN a ELSE gcd(b, a % b)

abs(x) == IF x < 0 THEN 0 - x ELSE x

Frac(p, n) ==
    LET g == gcd(abs(p), abs(n))
        sg == IF n < 0 THEN 0 - 1 ELSE 1
    IN [n |-> sg * (n \div g), p |-> sg * (p \div g)]

FracLE(a, b) == a.p * b.n <= b.p * a.n

\* Relative.percent_change: (old - new) / old * 100.0
percent_change(new, old) ==
    IF old.p = 0 THEN [err |-> "ZeroDivisionError"]
    ELSE [val |-> Frac((old.p * new.n - new.p * old.n) * 100, old.p * new.n)]

\* Relative.percent_decrease: assert new <= old
percent_decrease(new, old) ==
    IF ~FracLE(new, old) THEN [err |-> "AssertionError"]
    ELSE percent_change(new, old)

\* An increase that forgets to change the sign.
percent_increase_unsigned(new, old) ==
    IF ~FracLE(old, new) THEN [err |-> "AssertionError"]
    ELSE percent_change(new, old)

\* Relative.percent_increase: assert new >= old
percent_increase(new, old) ==
    IF ~FracLE(old, new) THEN [err |-> "AssertionError"]
    ELSE LET c == percent_change(new, old)
         IN IF "err" \in DOMAIN c THEN c
            ELSE [val |-> Frac(0 - c.val.p, c.val.n)]

percent_smaller(new, old) == percent_decrease(new, old)
percent_bigger(new, old) == percent_increase(new, old)
percent_slower(new, old) == percent_increase(new, old)
percent_faster(new, old) == percent_decrease(new, old)

Decreases == {"percent_decrease", "percent_smaller", "percent_faster"}
Increases == {"percent_increase", "percent_bigger", "percent_slower"}
Helpers == {"percent_change"} \cup Decreases \cup Increases

\* Relative.<h>(new, old)
relative(h, new, old) ==
    CASE h = "percent_change" -> percent_change(new, old)
      [] h = "percent_decrease" -> percent_decrease(new, old)
      [] h = "percent_increase" -> percent_increase(new, old)
      [] h = "percent_smaller" -> percent_smaller(new, old)
      [] h = "percent_bigger" -> percent_bigger(new, old)
      [] h = "percent_slower" -> percent_slower(new, old)
      [] h = "percent_faster" -> percent_faster(new, old)

\* '{:0.2f}'.format(x) for x >= 0, as the number of hundredths: the
\* nearest one, the even one of two equally near.
format_2f(x) ==
    LET h == (x.p * 100) \div x.n
        r == (x.p * 100) % x.n
    IN IF 2 * r < x.n THEN h
       ELSE IF 2 * r > x.n THEN h + 1
       ELSE IF h % 2 = 0 THEN h ELSE h + 1

\* Timerit.summary(stat): the lines '<key> is <pcnt>% faster than
\* <prev_key>' over the items of rankings['mean'] from the slowest to the
\* fastest; the argument stat is not read.
Reverse(q) == [i \in 1..Len(q) |-> q[Len(q) + 1 - i]]

summary(ms, stat) ==
    LET rk == rankings(ms)
    IN IF "mean" \notin DOMAIN rk THEN [err |-> "KeyError"]
       ELSE LET items == Reverse(rk["mean"])
                \* the iterations in which `if prev_key:` holds
                told == {i \in 2..Len(items) : Truthy(items[i - 1].k)}
                pcnt(i) == percent_faster(Frac(items[i].v.p, items[i].v.n),
                                          Frac(items[i - 1].v.p,
                                               items[i - 1].v.n))
                line(i) == [pcnt |-> format_2f(pcnt(i).val),
                            fast |-> items[i].k,
                            slow |-> items[i - 1].k]
                idx == SelectSeq([i \in 1..Len(items) |-> i],
                                 LAMBDA i : i \in told)
            IN IF \E i \in told : "err" \in DOMAIN pcnt(i)
               THEN [err |-> (pcnt(CHOOSE i \in told :
                                     /\ "err" \in DOMAIN pcnt(i)
                                     /\ \A j \in told :
                                          "err" \in DOMAIN pcnt(j) => i <= j)).err]
               ELSE [lines |-> [j \in 1..Len(idx) |-> line(idx[j])]]

\* ------------------------------------------------------- units, report
RECURSIVE Pow10(_)
Pow10(e) == IF e = 0 THEN 1 ELSE 10 * Pow10(e - 1)

\* A value that is None instead of a number.
NoneValue == [n |-> 0, p |-> 0]

\* Timerit._default_asciimode (None: not forced), and a standard output
\* whose encoding has the micro and plus-minus signs.
default_asciimode == FALSE
stdout_encodes == TRUE

\* _trychar(char, fallback, asciimode): the fallback when ascii mode is
\* forced or standard output cannot encode char.
trychar(char, fallback, asciimode, encodes) ==
    IF asciimode THEN fallback ELSE IF encodes THEN char ELSE fallback

\* A scan that stops at the first scale the value reaches.
exceeds_or_equal(value, e) ==
    value.p > (value.n - 1) \div Pow10(e)

\* _choose_unit, `if value > mag`: value > 10^-e for the value p/n, that
\* is p * 10^e > n
exceeds(value, e) == value.p > value.n \div Pow10(e)

\* _choose_unit, the `units` table: the suffix and the scale of unit k, the
\* scale 10^-e as the fraction 1 / 10^e
units(k, asciimode, encodes) ==
    [suffix |-> IF k = "us"
                THEN trychar(MicroSign, "us", asciimode, encodes) ELSE k,
     mag |-> [n |-> Pow10(UnitExp[k]), p |-> 1]]

\* _choose_unit, the loop without a forced unit: it breaks at the first
\* unit whose scale the value exceeds and otherwise ends with the last one
scan(value) ==
    LET hit == {i \in 1..Len(UnitNames) : exceeds(value, UnitExp[UnitNames[i]])}
    IN IF hit = {} THEN UnitNames[Len(UnitNames)]
       ELSE UnitNames[CHOOSE i \in hit : \A j \in hit : i <= j]

\* A choice that lets the value decide also when a unit is forced.
choose_unit_scan(value, u, asciimode, encodes) ==
    IF u # NoUnit /\ u \notin DOMAIN UnitExp THEN [err |-> "KeyError"]
    ELSE units(scan(value), asciimode, encodes)

\* _choose_unit(value, unit, asciimode)
choose_unit(value, u, asciimode, encodes) ==
    IF u = NoUnit
    THEN IF value = NoneValue THEN [err |-> "TypeError"]
         ELSE units(scan(value), asciimode, encodes)
    ELSE IF u \notin DOMAIN UnitExp THEN [err |-> "KeyError"]
         ELSE units(u, asciimode, encodes)

\* x / mag for two fractions
over(x, mag) == [n |-> x.n * mag.p, p |-> x.p * mag.n]

\* '{:.{pr}f}'.format(x) for x = p/n >= 0: the text shows pr decimals; its
\* value is the nearest multiple of 10^-pr, the even one of two equally
\* near, kept as the count of 10^-pr.
format_f(x, pr) ==
    LET N == x.p * Pow10(pr)
        h == N \div x.n
        r == N % x.n
    IN [digits |-> pr,
        count |-> IF 2 * r < x.n THEN h
                  ELSE IF 2 * r > x.n THEN h + 1
                  ELSE IF h % 2 = 0 THEN h ELSE h + 1]

\* floor(sqrt(a * 100^k / b)), one decimal digit per step
RECURSIVE isqrt(_, _, _)
isqrt(a, b, k) ==
    IF a = 0 THEN 0
    ELSE IF k = 0
         THEN CHOOSE f \in 0..a : f * f * b <= a /\ (f + 1) * (f + 1) * b > a
         ELSE LET f == 10 * isqrt(a, b, k - 1)
                  A == a * Pow10(k) * Pow10(k)
              IN CHOOSE g \in f..(f + 9) :
                    g * g * b <= A /\ (g + 1) * (g + 1) * b > A

\* '{:.{pr}f}'.format(std / mag) for std = sqrt(q / n^3) and mag = 10^-e:
\* sqrt(q * 100^(e + pr) / n^3) to the nearest integer.
format_root(sd, mag, pr) ==
    LET e == CHOOSE i \in 0..9 : Pow10(i) = mag.n
        b == sd.n * sd.n * sd.n
        f == isqrt(sd.q, b, e + pr)
        rest == sd.q * Pow10(e + pr) * Pow10(e + pr) - (f * f + f) * b
    IN [digits |-> pr,
        count |-> IF sd.q = 0 THEN 0
                  ELSE IF 4 * rest < b THEN f
                  ELSE IF 4 * rest > b THEN f + 1
                  ELSE IF f % 2 = 0 THEN f ELSE f + 1]

\* A spread shown with as many decimals as the values.
spread_precision_same(pr) == pr

\* Timerit._seconds_str: pr2 = max(self._precision - 2, 1)
spread_precision(pr) == IF pr - 2 >= 1 THEN pr - 2 ELSE 1

\* Timerit._seconds_str: 'best=<min> <unit>, mean=<mean> <pm> <std> <unit>'
\* in the unit chosen for the mean
seconds_str(ts) ==
    LET m == mean(ts, bestof)
        c == choose_unit(m, unit, default_asciimode, stdout_encodes)
    IN IF m.n = 0 THEN [err |-> "ZeroDivisionError"]
       ELSE IF "err" \in DOMAIN c THEN c
       ELSE [unit |-> c.suffix,
             mean |-> format_f(over(m, c.mag), precision),
             std |-> format_root(std(ts, bestof), c.mag,
                                 spread_precision(precision)),
             best |-> format_f(over([n |-> 1, p |-> min(ts)], c.mag), precision),
             pm |-> trychar("+-sign", "+-", default_asciimode, stdout_encodes)]

\* A status line that shows the chunk size as it was given.
shown_bestof_raw(k, n) == k

\* Timerit._status_line: bestof=min(self.bestof, self.num)
shown_bestof(k, n) == IF k <= n THEN k ELSE n

\* Timerit._status_line: the label is shown when it is truthy; a num that
\* is None cannot be compared with bestof
status_line(tense) ==
    IF num = None THEN [err |-> "TypeError"]
    ELSE [label |-> IF Truthy(label) THEN label ELSE "",
          kind |-> IF tense = "present" THEN "Timing" ELSE "Timed",
          loops |-> num,
          best_of |-> shown_bestof(bestof, num)]

\* Timerit.report(verbose) on a session whose samples are ts and whose
\* total_time is tot: the lines of the report, or the error it raises
report(v, ts, tot) ==
    LET S == seconds_str(ts)
        st == status_line("past")
        bu == choose_unit(IF tot = None THEN NoneValue ELSE [n |-> 1, p |-> tot],
                          unit, default_asciimode, stdout_encodes)
    IN IF v >= 2
       THEN IF "err" \in DOMAIN st THEN st
            ELSE IF v >= 3 /\ "err" \in DOMAIN bu THEN bu
            ELSE IF "err" \in DOMAIN S THEN S
            ELSE [lines |->
                    <<st>>
                    \o (IF v >= 3
                        THEN <<[unit |-> bu.suffix,
                                kind |-> "body took",
                                total |-> format_f(over([n |-> 1, p |-> tot],
                                                        bu.mag), precision)]>>
                        ELSE <<>>)
                    \o <<[kind |-> "time per loop", stats |-> S]>>]
       ELSE IF "err" \in DOMAIN S THEN S
            ELSE [lines |-> <<[label |-> IF Truthy(label) THEN label ELSE "",
                              kind |-> "Timed stats",
                              stats |-> S]>>]

\* --------------------------------------------------------------- Timer
\* The trial loop of a second session, not started: its generator's
\* position, the prev of its _SetGCState, its repetition count, and whether
\* it started before the first session's loop.
NewOther == [prev |-> FALSE, pc |-> "idle", rep |-> 0, lead |-> FALSE]

NewTimer == [raw_tstart |-> Sentinel, raw_elapsed |-> Sentinel]

\* Timer.elapsed (property)
elapsed(t) == t.raw_elapsed * to_seconds

\* reading the counter: HackedTime.__call__ advances the clock by inc
Read(now) == now + inc

\* A tic that does not restart a timer that was started before.
raw_tic_once(t, now) ==
    IF t.raw_tstart = Sentinel THEN [t EXCEPT !.raw_tstart = now] ELSE t

\* Timer._raw_tic with the counter reading `now`
raw_tic(t, now) == [t EXCEPT !.raw_tstart = now]

\* A toc that forgets the start of the interval.
raw_toc_abs(t, now) == [t EXCEPT !.raw_elapsed = now]

\* Timer._raw_toc with the counter reading `now`
raw_toc(t, now) == [t EXCEPT !.raw_elapsed = now - t.raw_tstart]

\* An exit that swallows the exception of the scoped body.
exit_swallow(raised) == raised

\* Timer.__exit__: whether the scope suppresses an exception of its body
\* (`return False` with a traceback, None without one)
exit_suppresses(raised) == FALSE

\* ------------------------------------------------------------ _SetGCState
\* _SetGCState.__enter__: the state the collector is set to
gc_enter(enable) == enable

\* An exit that leaves the collector off.
gc_exit_off(p) == FALSE

\* _SetGCState.__exit__: the state the collector is restored to
gc_exit(p) == p

\* ------------------------------------------------------------ Timerit
\* A loop that always records the background time.
block_time_bg(fg, bg_time) == bg_time

\* Timerit.__iter__, the fallback between the two timers: the foreground
\* timer's elapsed when it is >= 0, the background time otherwise.
block_time(fg, bg_time) ==
    IF elapsed(fg) >= 0 THEN elapsed(fg) ELSE bg_time

\* A loop that forgets to count.
loop_uncounted(n) == n

\* Timerit.__iter__: self.n_loops += 1
loop_counted(n) == n + 1

\* A loop that repeats once too often.
loop_more_le(r, n) == r <= n

\* Timerit.__iter__: `for _ in it.repeat(None, self.num)` has another
\* repetition after r of them
loop_more(r, n) == r < n

\* A check that only asks for enough samples.
consistent_lax(ts, n) == Len(ts) >= n

\* Timerit.__iter__: the check after the loop
consistent(ts, n) == Len(ts) = n

\* A reset that takes whatever label it is given.
reset_label_always(cur, l) == l

\* Timerit.reset: the label after reset(label=l)
reset_label(cur, l) == IF Truthy(l) THEN l ELSE cur

\* A reset that always clears measures.
reset_measures_clear(ms, m) == EmptyMeasures

\* Timerit.reset: measures after reset(measures=m)
reset_measures(ms, m) == IF m THEN EmptyMeasures ELSE ms

\* Timerit.__init__: the attributes that do not depend on the arguments,
\* Timer.__init__ for both timers, and a caller that has done nothing yet.
Attributes ==
    /\ times = <<>>
    /\ total_time = 0
    /\ n_loops = None
    /\ measures = EmptyMeasures
    /\ bg_timer = NewTimer
    /\ fg_timer = NewTimer
    /\ time = 0
    /\ prev = FALSE
    /\ rep = 0
    /\ cpos = "out"
    /\ acted = FALSE
    /\ out = <<>>
    /\ gc_before = gc_enabled
    /\ scoped = FALSE
    /\ clean = TRUE
    /\ runs = 0
    /\ nticks = 0
    /\ ret = NoRet
    /\ timer = NewTimer

\* Timerit(...) returned a session.
Constructed ==
    /\ Attributes
    /\ pc = "idle"
    /\ exc = "none"

\* Timerit(..., min_duration=d): __init__ has no such parameter, the call
\* raises TypeError and there is no session to iterate.
Rejected ==
    /\ Attributes
    /\ pc = "unconstructed"
    /\ exc = "TypeError"

\* The arguments and class attributes left at their defaults: no forced
\* unit, _default_precision, no keyword the constructor does not know, and
\* no second session.
Defaults ==
    /\ unit = NoUnit
    /\ precision = default_precision
    /\ min_duration = None
    /\ other = NewOther

\* A session reused across runs and resets, timed by a manual clock.
Init ==
    /\ num \in 1..MaxNum
    /\ bestof \in 1..MaxBestof
    /\ verbose \in Verbosities
    /\ disable_gc = TRUE
    /\ inc = 0
    /\ amb = 0
    /\ work = 0
    /\ label \in {NoLabel, "a"}
    /\ gc_enabled = TRUE
    /\ Defaults
    /\ Constructed

\* Timerit.__iter__ from its first line to the first `yield fg_timer`.
\* A new run starts only when no earlier generator of the session is
\* still suspended.
IterStart ==
    /\ pc \in {"idle", "done", "failed", "closed"}
    /\ IF verbose >= 3 /\ "err" \in DOMAIN status_line("present")
       THEN \* the status line cannot be formatted: nothing else happens
            /\ pc' = "failed"
            /\ exc' = status_line("present").err
            /\ UNCHANGED <<out, n_loops, total_time, prev, gc_enabled,
                           bg_timer, time, rep>>
       ELSE IF num = None
       THEN \* it.repeat(None, None) raises inside the collector's scope
            /\ n_loops' = 0
            /\ total_time' = 0
            /\ prev' = gc_enabled
            /\ gc_enabled' = gc_exit(gc_enabled)
            /\ pc' = "failed"
            /\ exc' = "TypeError"
            /\ UNCHANGED <<out, bg_timer, time, rep>>
       ELSE LET t1 == Read(time) IN
            /\ out' = IF verbose >= 3
                      THEN Append(out, status_line("present")) ELSE out
            /\ n_loops' = 0
            /\ total_time' = 0
            /\ prev' = gc_enabled
            /\ gc_enabled' = gc_enter(FALSE)
            /\ bg_timer' = raw_tic(bg_timer, t1)
            /\ time' = t1
            /\ pc' = "yielded"
            /\ rep' = 1
            /\ exc' = "none"
    /\ cpos' = "out"
    /\ acted' = FALSE
    /\ gc_before' = gc_enabled
    /\ scoped' = FALSE
    /\ clean' = (times = <<>>)
    /\ runs' = runs + 1
    /\ UNCHANGED <<config, queried, label, times, measures, fg_timer, nticks>>

\* Timerit.__iter__ from the return of `yield fg_timer` (the caller body
\* returned and asked for the next timer) to the next yield or to the end
\* of the generator.
IterResume ==
    /\ pc = "yielded"
    /\ cpos = "out"
    /\ LET t1 == Read(time)
           bg1 == raw_toc(bg_timer, t1)
           blk == block_time(fg_timer, elapsed(bg1))
           times1 == Append(times, blk)
       IN /\ times' = times1
          /\ total_time' = total_time + blk
          /\ n_loops' = loop_counted(n_loops)
          /\ IF loop_more(rep, num)
             THEN LET t2 == Read(t1) IN
                  /\ bg_timer' = raw_tic(bg1, t2)
                  /\ time' = t2
                  /\ pc' = "yielded"
                  /\ rep' = rep + 1
                  /\ UNCHANGED <<gc_enabled, measures, out, exc>>
             ELSE /\ bg_timer' = bg1
                  /\ time' = t1
                  /\ gc_enabled' = gc_exit(prev)
                  /\ rep' = rep
                  /\ IF ~consistent(times1, num)
                     THEN /\ pc' = "failed"
                          /\ exc' = "AssertionError"
                          /\ UNCHANGED <<measures, out>>
                     ELSE LET r == report(verbose, times1, total_time + blk)
                          IN /\ measures' = record_measurement(measures, label,
                                                               times1, bestof)
                             /\ IF verbose > 0 /\ "err" \in DOMAIN r
                                THEN \* self.print(self.verbose) raises
                                     /\ pc' = "failed"
                                     /\ exc' = r.err
                                     /\ out' = out
                                ELSE /\ pc' = "done"
                                     /\ out' = IF verbose > 0
                                               THEN out \o r.lines ELSE out
                                     /\ exc' = exc
    /\ acted' = FALSE
    /\ scoped' = FALSE
    /\ UNCHANGED <<config, queried, label, fg_timer, prev, cpos, gc_before, clean, runs,
                   nticks>>

\* The generator is closed while suspended at the yield (the caller left
\* the for loop): GeneratorExit unwinds `with _SetGCState(enable=False)`.
IterClose ==
    /\ pc = "abandoned"
    /\ gc_enabled' = gc_exit(prev)
    /\ pc' = "closed"
    /\ UNCHANGED <<config, queried, label, times, total_time, n_loops, measures,
                   bg_timer, fg_timer, time, prev, rep, cpos, acted, out,
                   history>>

\* Caller body: the clock moves by n (ManualTime.tic), at most once before
\* and once inside the timer's scope.
BodyTick(n) ==
    /\ pc = "yielded"
    /\ ~acted
    /\ time' = time + n
    /\ acted' = TRUE
    /\ nticks' = nticks + 1
    /\ UNCHANGED <<config, queried, label, times, total_time, n_loops, measures,
                   bg_timer, fg_timer, gc_enabled, prev, pc, rep, cpos, out,
                   gc_before, scoped, clean, runs, exc>>

\* Caller body: `with timer:` -> Timer.__enter__ -> tic
ScopeEnter ==
    /\ pc = "yielded"
    /\ cpos = "out"
    /\ ~scoped
    /\ LET t1 == Read(time) IN
       /\ fg_timer' = raw_tic(fg_timer, t1)
       /\ time' = t1
    /\ cpos' = "in"
    /\ acted' = FALSE
    /\ UNCHANGED <<config, queried, label, times, total_time, n_loops, measures,
                   bg_timer, gc_enabled, prev, pc, rep, out, history>>

\* Caller body: the end of the `with timer:` block -> Timer.__exit__ -> toc
ScopeExit ==
    /\ pc = "yielded"
    /\ cpos = "in"
    /\ LET t1 == Read(time) IN
       /\ fg_timer' = raw_toc(fg_timer, t1)
       /\ time' = t1
    /\ cpos' = "out"
    /\ acted' = TRUE
    /\ scoped' = TRUE
    /\ UNCHANGED <<config, queried, label, times, total_time, n_loops, measures,
                   bg_timer, gc_enabled, prev, pc, rep, out,
                   gc_before, clean, runs, exc, nticks>>

\* Caller body raises: inside the scope Timer.__exit__ runs toc and does
\* not suppress the exception; the for loop is left with the generator
\* still suspended.
BodyRaise ==
    /\ pc = "yielded"
    /\ IF cpos = "in"
       THEN LET t1 == Read(time) IN
            /\ fg_timer' = raw_toc(fg_timer, t1)
            /\ time' = t1
            /\ scoped' = TRUE
       ELSE UNCHANGED <<fg_timer, time, scoped>>
    /\ cpos' = "out"
    /\ IF cpos = "in" /\ exit_suppresses(TRUE)
       THEN UNCHANGED <<pc, exc>>
       ELSE pc' = "abandoned" /\ exc' = "body"
    /\ UNCHANGED <<config, queried, label, times, total_time, n_loops, measures,
                   bg_timer, gc_enabled, prev, rep, acted, out,
                   gc_before, clean, runs, nticks>>

\* Caller body leaves the for loop with `break`.
BodyBreak ==
    /\ pc = "yielded"
    /\ cpos = "out"
    /\ pc' = "abandoned"
    /\ UNCHANGED <<config, queried, label, times, total_time, n_loops, measures,
                   bg_timer, fg_timer, time, gc_enabled, prev, rep, cpos,
                   acted, out, history>>

\* Caller body drops the last recorded sample through timer.parent.times.
BodyTruncate ==
    /\ pc = "yielded"
    /\ cpos = "out"
    /\ ~acted
    /\ ~scoped
    /\ times # <<>>
    /\ times' = SubSeq(times, 1, Len(times) - 1)
    /\ acted' = TRUE
    /\ clean' = FALSE
    /\ UNCHANGED <<config, queried, label, total_time, n_loops, measures, bg_timer,
                   fg_timer, time, gc_enabled, prev, pc, rep, cpos, out,
                   gc_before, scoped, runs, exc, nticks>>

\* Timerit.reset(label=l, measures=m), called between runs.
Reset(l, m) ==
    /\ pc \in {"idle", "done", "failed", "closed"}
    /\ label' = reset_label(label, l)
    /\ measures' = reset_measures(measures, m)
    /\ times' = <<>>
    /\ n_loops' = None
    /\ total_time' = None
    /\ pc' = "idle"
    /\ clean' = TRUE
    /\ exc' = "none"
    /\ UNCHANGED <<config, queried, bg_timer, fg_timer, time, gc_enabled, prev, rep,
                   cpos, acted, out, gc_before, scoped, runs, nticks>>

\* ------------------------------------------------- a second session
\* What the trial loop of a second Timerit(num) on the same thread shares
\* with the first is the collector; its own samples are not kept here.
mine == <<num, bestof, verbose, disable_gc, inc, amb, work, unit, precision,
          min_duration, queried, label, times, total_time, n_loops, measures,
          bg_timer, fg_timer, time, prev, pc, rep, cpos, acted, out, history>>

\* Timerit.__iter__ of the second session to its first yield.
OtherStart ==
    /\ other.pc = "idle"
    /\ other' = [prev |-> gc_enabled, pc |-> "yielded", rep |-> 1,
                 lead |-> (runs = 0)]
    /\ gc_enabled' = gc_enter(FALSE)
    /\ UNCHANGED mine

\* Timerit.__iter__ of the second session from a yield to the next or to
\* the end of the loop.
OtherResume ==
    /\ other.pc = "yielded"
    /\ IF loop_more(other.rep, num)
       THEN /\ other' = [other EXCEPT !.rep = @ + 1]
            /\ UNCHANGED gc_enabled
       ELSE /\ other' = [other EXCEPT !.pc = "done"]
            /\ gc_enabled' = gc_exit(other.prev)
    /\ UNCHANGED mine

\* The second session's generator is closed while suspended at its yield
\* (dropped by zip or by a break): its _SetGCState is left.
OtherClose ==
    /\ other.pc = "yielded"
    /\ other' = [other EXCEPT !.pc = "closed"]
    /\ gc_enabled' = gc_exit(other.prev)
    /\ UNCHANGED mine

\* ------------------------------------------------- a Timer on its own
\* The session-side variables, untouched by the use of a lone Timer.
session == <<label, times, total_time, n_loops, measures, bg_timer, fg_timer,
             gc_enabled, prev, pc, rep, acted, out, gc_before, scoped, clean,
             runs>>

\* Timer.tic, called outside a scope; returns the timer itself.
TimerTic ==
    /\ cpos = "out"
    /\ LET t1 == Read(time) IN
       /\ timer' = raw_tic(timer, t1)
       /\ time' = t1
    /\ ret' = ReturnedSelf("tic")
    /\ UNCHANGED <<config, session, cpos, exc, nticks>>

\* Timer.toc, called outside a scope; returns the elapsed seconds.
TimerToc ==
    /\ cpos = "out"
    /\ LET t1 == Read(time)
           t == raw_toc(timer, t1)
       IN /\ timer' = t
          /\ time' = t1
          /\ ret' = Returned("toc", elapsed(t))
    /\ UNCHANGED <<config, session, cpos, exc, nticks>>

\* `with timer:` -> Timer.__enter__: tic, returns the timer itself.
TimerEnter ==
    /\ cpos = "out"
    /\ LET t1 == Read(time) IN
       /\ timer' = raw_tic(timer, t1)
       /\ time' = t1
    /\ cpos' = "in"
    /\ exc' = "none"
    /\ ret' = ReturnedSelf("enter")
    /\ UNCHANGED <<config, session, nticks>>

\* Timer.__exit__ with or without an exception of the scoped body: toc,
\* and the exception goes on to the code around the scope unless the exit
\* suppresses it.
TimerExit(raised) ==
    /\ cpos = "in"
    /\ LET t1 == Read(time) IN
       /\ timer' = raw_toc(timer, t1)
       /\ time' = t1
    /\ cpos' = "out"
    /\ exc' = IF raised /\ ~exit_suppresses(raised) THEN "body" ELSE "none"
    /\ ret' = [op |-> "exit", suppress |-> exit_suppresses(raised)]
    /\ UNCHANGED <<config, session, nticks>>

\* Code around or inside the scope moves the manual clock by n.
Tick(n) ==
    /\ time' = time + n
    /\ nticks' = nticks + 1
    /\ UNCHANGED <<config, session, timer, cpos, exc, ret>>

\* ------------------------------------------------------------ queries
\* A method or property that only reads the session and gives r.
Query(r) ==
    /\ ret' = r
    /\ UNCHANGED <<config, session, timer, time, cpos, exc, nticks>>

\* Timerit.robust_times()
QueryRobustTimes ==
    Query([op |-> "robust_times", list |-> robust_times(times, bestof)])

\* Timerit.min(): min() of an empty list raises ValueError
QueryMin ==
    Query(IF times = <<>> THEN Raised("min", "ValueError")
          ELSE Returned("min", min(times)))

\* Timerit.mean(): the division by len(times) raises for no samples
QueryMean ==
    LET m == mean(times, bestof)
    IN Query(IF m.n = 0 THEN Raised("mean", "ZeroDivisionError")
             ELSE [op |-> "mean", frac |-> m])

\* Timerit.std(): the division by len(times) raises for no samples
QueryStd ==
    LET sd == std(times, bestof)
    IN Query(IF sd.n = 0 THEN Raised("std", "ZeroDivisionError")
             ELSE [op |-> "std", root |-> sd])

\* Timerit.rankings (property)
QueryRankings == Query([op |-> "rankings", rank |-> rankings(measures)])

\* Timerit.consistency (property)
QueryConsistency ==
    Query(IF DOMAIN rankings(measures) = {}
          THEN Raised("consistency", "Exception: no measurements")
          ELSE [op |-> "consistency", score |-> consistency(measures)])

\* Timerit.summary(stat)
QuerySummary(stat) ==
    LET r == summary(measures, stat)
    IN Query(IF "err" \in DOMAIN r
             THEN [op |-> "summary", err |-> r.err, stat |-> stat]
             ELSE [op |-> "summary", stat |-> stat, lines |-> r.lines])

\* Relative.<h>(new, old) called with two integers.
RelativeCall(h, x, y) ==
    LET r == relative(h, Frac(x, 1), Frac(y, 1))
    IN Query(IF "err" \in DOMAIN r
             THEN [op |-> h, err |-> r.err, new |-> x, old |-> y]
             ELSE [val |-> r.val, op |-> h, new |-> x, old |-> y])

\* Timerit.report(verbose=v), called between runs
QueryReport(v) ==
    LET r == report(v, times, total_time)
    IN Query(IF "err" \in DOMAIN r
             THEN [op |-> "report", err |-> r.err, level |-> v]
             ELSE [op |-> "report", lines |-> r.lines, level |-> v])

\* _choose_unit(value, u, asciimode) called on its own, on a standard
\* output that can or cannot encode the micro sign.
ChooseUnit(value, u, asciimode, encodes) ==
    LET r == choose_unit(value, u, asciimode, encodes)
    IN Query(IF "err" \in DOMAIN r
             THEN [op |-> "_choose_unit", err |-> r.err, encodes |-> encodes,
                   value |-> value, forced |-> u, ascii |-> asciimode]
             ELSE [op |-> "_choose_unit", encodes |-> encodes, value |-> value,
                   suffix |-> r.suffix, mag |-> r.mag, forced |-> u,
                   ascii |-> asciimode])

\* ------------------------------------------------------ specifications
\* The session life cycle: runs, early exits, truncation, resets.
Next ==
    \/ runs < MaxRuns /\ IterStart
    \/ IterResume
    \/ IterClose
    \/ nticks < MaxTicks /\ BodyTick(TickStep)
    \/ BodyRaise
    \/ BodyBreak
    \/ BodyTruncate
    \/ \E l \in LabelArgs, m \in BOOLEAN : Reset(l, m)

Spec == Init /\ [][Next]_vars

\* The same life cycle for sessions constructed with or without a forced
\* unit, a unit name outside the table included.
InitMeasures ==
    /\ num \in 1..MaxNum
    /\ bestof \in 1..MaxBestof
    /\ verbose \in Verbosities
    /\ disable_gc = TRUE
    /\ inc = 0
    /\ amb = 0
    /\ work = 0
    /\ label \in {NoLabel, "a"}
    /\ gc_enabled = TRUE
    /\ unit \in {NoUnit, BadUnit}
    /\ precision = default_precision
    /\ min_duration = None
    /\ other = NewOther
    /\ Constructed

SpecMeasures == InitMeasures /\ [][Next]_vars

\* One run of a fresh session whose caller scopes the timer or not, and
\* moves the clock before and inside the scope, as it likes.
InitTiming ==
    /\ num \in 1..TimingNum
    /\ bestof = 1
    /\ verbose = 0
    /\ disable_gc = TRUE
    /\ inc \in Incs
    /\ amb = 0
    /\ work = 0
    /\ label = NoLabel
    /\ gc_enabled = TRUE
    /\ Defaults
    /\ Constructed

NextTiming ==
    \/ runs = 0 /\ IterStart
    \/ IterResume
    \/ \E n \in 1..TimingTick : BodyTick(n)
    \/ ScopeEnter
    \/ ScopeExit

SpecTiming == InitTiming /\ [][NextTiming]_vars

\* One run of a fresh session on a clock that only moves when it is read
\* (HackedTime), by a caller that never touches the timer.
InitFixed ==
    /\ num \in 1..FixNum
    /\ bestof \in 1..num
    /\ verbose = 0
    /\ disable_gc = TRUE
    /\ inc \in 0..FixInc
    /\ amb = 0
    /\ work = 0
    /\ label = NoLabel
    /\ gc_enabled = TRUE
    /\ Defaults
    /\ Constructed

NextFixed ==
    \/ runs = 0 /\ IterStart
    \/ IterResume

SpecFixed == InitFixed /\ [][NextFixed]_vars

\* One run of a fresh session whose caller, in every iteration, moves the
\* clock by amb, opens the timer's scope, moves the clock by work inside
\* it and leaves the scope (test_timer_context).
InitScoped ==
    /\ num \in 1..ScopedNum
    /\ bestof \in 1..num
    /\ verbose = 0
    /\ disable_gc = TRUE
    /\ inc \in Incs
    /\ amb \in 0..ScopedTick
    /\ work \in 0..ScopedTick
    /\ label = NoLabel
    /\ gc_enabled = TRUE
    /\ Defaults
    /\ Constructed

NextScoped ==
    \/ runs = 0 /\ IterStart
    \/ cpos = "out" /\ ~scoped /\ amb > 0 /\ BodyTick(amb)
    \/ cpos = "out" /\ (acted \/ amb = 0) /\ ScopeEnter
    \/ cpos = "in" /\ work > 0 /\ BodyTick(work)
    \/ cpos = "in" /\ (acted \/ work = 0) /\ ScopeExit
    \/ scoped /\ IterResume

SpecScoped == InitScoped /\ [][NextScoped]_vars

\* Runs of a session started with the collector enabled or disabled, left
\* by completion, by the consistency error, by break or by an exception.
InitGC ==
    /\ num \in 1..MaxNum
    /\ bestof = 1
    /\ verbose = 0
    /\ disable_gc \in BOOLEAN
    /\ inc = 1
    /\ amb = 0
    /\ work = 0
    /\ label = NoLabel
    /\ gc_enabled \in BOOLEAN
    /\ Defaults
    /\ Constructed

NextGC ==
    \/ runs < MaxRuns /\ IterStart
    \/ IterResume
    \/ IterClose
    \/ ScopeEnter
    \/ ScopeExit
    \/ BodyRaise
    \/ BodyBreak

SpecGC == InitGC /\ [][NextGC]_vars

\* Timerit.call(func) on a session that is reset to another label between
\* calls or not at all: every iteration opens the timer's scope, runs func
\* (which may move the clock and may raise) and leaves the scope.
InitCall ==
    /\ num \in 1..CallNum
    /\ bestof = 1
    /\ verbose \in Verbosities
    /\ disable_gc = TRUE
    /\ inc = 1
    /\ amb = 0
    /\ work = 0
    /\ label = "a"
    /\ gc_enabled = TRUE
    /\ Defaults
    /\ Constructed

NextCall ==
    \/ runs < MaxRuns /\ IterStart
    \/ ScopeEnter
    \/ cpos = "in" /\ BodyTick(TickStep)
    \/ ScopeExit
    \/ cpos = "in" /\ BodyRaise
    \/ scoped /\ IterResume
    \/ IterClose
    \/ Reset("b", FALSE)

SpecCall == InitCall /\ [][NextCall]_vars

\* A Timer used on its own, by tic and toc or as a scope, on a clock that
\* advances by inc on every read and by hand.
InitTimer ==
    /\ num = 1
    /\ bestof = 1
    /\ verbose = 0
    /\ disable_gc = TRUE
    /\ inc \in 0..TimerInc
    /\ amb = 0
    /\ work = 0
    /\ label = NoLabel
    /\ gc_enabled = TRUE
    /\ Defaults
    /\ Constructed

NextTimer ==
    \/ time < MaxClock /\ TimerTic
    \/ time < MaxClock /\ TimerToc
    \/ time < MaxClock /\ TimerEnter
    \/ \E raised \in BOOLEAN : TimerExit(raised)
    \/ nticks < MaxTicks /\ time < MaxClock /\ Tick(TickStep)

SpecTimer == InitTimer /\ [][NextTimer]_vars

\* One run of a fresh session whose bodies move a manual clock, with the
\* statistics read before the run, after it and after a reset.
InitStats ==
    /\ num \in 1..StatNum
    /\ bestof \in 1..StatBestof
    /\ verbose = 0
    /\ disable_gc = TRUE
    /\ inc = 0
    /\ amb = 0
    /\ work = 0
    /\ label = "a"
    /\ gc_enabled = TRUE
    /\ Defaults
    /\ Constructed

NextStats ==
    \/ runs = 0 /\ IterStart
    \/ \E n \in 1..StatTick : BodyTick(n)
    \/ IterResume
    \/ \E m \in BOOLEAN : Reset(NoLabel, m)
    \/ pc # "yielded" /\ QueryRobustTimes
    \/ pc # "yielded" /\ QueryMin
    \/ pc # "yielded" /\ QueryMean
    \/ pc # "yielded" /\ QueryStd
    \/ pc # "yielded" /\ QueryConsistency

SpecStats == InitStats /\ [][NextStats]_vars

\* A session that times one code block under its default label and then
\* others under labels of their own (reset(label) between the runs), and
\* in the end is asked for its rankings, consistency or summary.
InitRank ==
    /\ num = RankNum
    /\ bestof = 1
    /\ verbose = 0
    /\ disable_gc = TRUE
    /\ inc = 0
    /\ amb = 0
    /\ work = 0
    /\ label \in {NoLabel, RankLabels[1]}
    /\ gc_enabled = TRUE
    /\ Defaults
    /\ Constructed

NextRank ==
    \/ pc = "idle" /\ ret = NoRet /\ IterStart
    \/ \E n \in 1..RankTick : nticks < RankTicks /\ BodyTick(n)
    \/ IterResume
    \/ \E i \in 1..Len(RankLabels) :
          /\ pc = "done"
          /\ ret = NoRet
          /\ Len(getstat(measures, "mean")) < MaxLabels
          /\ RankLabels[i] \notin keys(getstat(measures, "mean"))
          /\ \A j \in 1..(i - 1) :
                RankLabels[j] \in keys(getstat(measures, "mean"))
          /\ Reset(RankLabels[i], FALSE)
    \/ pc \in {"idle", "done"} /\ ret = NoRet /\ QueryRankings
    \/ pc \in {"idle", "done"} /\ ret = NoRet /\ QueryConsistency
    \/ \E stat \in {"mean", "min"} :
          pc \in {"idle", "done"} /\ ret = NoRet /\ QuerySummary(stat)

SpecRank == InitRank /\ [][NextRank]_vars

\* The percentage helpers called with any two small integers.
InitRelative ==
    /\ num = 1
    /\ bestof = 1
    /\ verbose = 0
    /\ disable_gc = TRUE
    /\ inc = 0
    /\ amb = 0
    /\ work = 0
    /\ label = NoLabel
    /\ gc_enabled = TRUE
    /\ Defaults
    /\ Constructed

NextRelative ==
    \E h \in Helpers : \E x, y \in (0 - RelMax)..RelMax :
        RelativeCall(h, x, y)

SpecRelative == InitRelative /\ [][NextRelative]_vars

\* Values in half nanoseconds (as fractions of a second) within UnitNear
\* of zero and of every scale, and the unit arguments.
UnitGrid == 2 * Pow10(9)
UnitValues ==
    {[n |-> UnitGrid, p |-> 2 * Pow10(9 - e) + d] :
        e \in {0, 3, 6, 9}, d \in (0 - UnitNear)..UnitNear}
    \cup {[n |-> UnitGrid, p |-> d] : d \in (0 - UnitNear)..UnitNear}
UnitArgs == {NoUnit, BadUnit} \cup DOMAIN UnitExp

\* _choose_unit called with any of these values and unit arguments.
InitUnit ==
    /\ num = 1
    /\ bestof = 1
    /\ verbose = 0
    /\ disable_gc = TRUE
    /\ inc = 0
    /\ amb = 0
    /\ work = 0
    /\ label = NoLabel
    /\ gc_enabled = TRUE
    /\ Defaults
    /\ Constructed

NextUnit ==
    \E value \in UnitValues, u \in UnitArgs, asciimode, encodes \in BOOLEAN :
        ChooseUnit(value, u, asciimode, encodes)

SpecUnit == InitUnit /\ [][NextUnit]_vars

\* The verbosities with distinct output and one above them, the values of
\* _precision (a subclass may set _default_precision), and the units a
\* session is constructed with.
ReportVerbosities == 0..4
Precisions == 1..4
ReportUnits == {NoUnit, "s", BadUnit}

\* One run of a fresh labelled session on a clock that moves by one on
\* every read and when a body moves it; the report is printed at the end
\* of the run and asked for before or after it, and _choose_unit is called
\* on its own.
InitReport ==
    /\ num \in 1..ReportNum
    /\ bestof \in 1..ReportBestof
    /\ verbose \in ReportVerbosities
    /\ disable_gc = TRUE
    /\ inc = 1
    /\ amb = 0
    /\ work = 0
    /\ label = "a"
    /\ gc_enabled = TRUE
    /\ unit \in ReportUnits
    /\ precision \in Precisions
    /\ min_duration = None
    /\ other = NewOther
    /\ Constructed

NextReport ==
    \/ runs = 0 /\ ret = NoRet /\ IterStart
    \/ nticks < ReportTicks /\ BodyTick(TickStep)
    \/ ScopeEnter
    \/ ScopeExit
    \/ IterResume
    \/ \E v \in 1..3 :
          pc \in {"idle", "done", "failed"} /\ ret = NoRet /\ QueryReport(v)
    \/ \E value \in UnitValues, u \in UnitArgs :
          /\ runs = 0
          /\ ret = NoRet
          /\ ChooseUnit(value, u, default_asciimode, stdout_encodes)

SpecReport == InitReport /\ [][NextReport]_vars

\* Timerit(num, label='foo', verbose=v[, min_duration=d]).call(f) on a
\* clock that moves by inc on every read, num given or None
\* (test_hacked_timerit_verbose; timerit(...) passes num=None by default).
InitAdaptive ==
    /\ num \in {None} \cup 1..AdaptNum
    /\ bestof = default_bestof
    /\ verbose \in Verbosities
    /\ disable_gc = TRUE
    /\ inc \in {TickStep, HackInc}
    /\ amb = 0
    /\ work = 0
    /\ label = "a"
    /\ gc_enabled = TRUE
    /\ unit = NoUnit
    /\ precision = default_precision
    /\ min_duration \in {None, MinDuration}
    /\ other = NewOther
    /\ IF min_duration = None THEN Constructed ELSE Rejected

NextAdaptive ==
    \/ runs = 0 /\ IterStart
    \/ ScopeEnter
    \/ ScopeExit
    \/ scoped /\ IterResume

SpecAdaptive == InitAdaptive /\ [][NextAdaptive]_vars

\* A session whose caller scopes the timer in every iteration of a first
\* run, resets the session, and scopes it in no iteration of a second run.
InitReuse ==
    /\ num \in 1..ReuseNum
    /\ bestof = 1
    /\ verbose = 0
    /\ disable_gc = TRUE
    /\ inc \in Incs
    /\ amb = 0
    /\ work = 0
    /\ label = "a"
    /\ gc_enabled = TRUE
    /\ Defaults
    /\ Constructed

NextReuse ==
    \/ pc = "idle" /\ runs < 2 /\ IterStart
    \/ runs = 1 /\ ScopeEnter
    \/ ScopeExit
    \/ nticks < ReuseTicks /\ BodyTick(TickStep)
    \/ (runs = 2 \/ scoped) /\ IterResume
    \/ \E m \in BOOLEAN : pc = "done" /\ runs = 1 /\ Reset("b", m)

SpecReuse == InitReuse /\ [][NextReuse]_vars

\* Two sessions driven on one thread, their iterations interleaved in any
\* order (nested for loops, zip, next() by hand), started with the
\* collector enabled or disabled.
InitTwo ==
    /\ num \in 1..TwoNum
    /\ bestof = 1
    /\ verbose = 0
    /\ disable_gc = TRUE
    /\ inc = 0
    /\ amb = 0
    /\ work = 0
    /\ label = NoLabel
    /\ gc_enabled \in BOOLEAN
    /\ Defaults
    /\ Constructed

NextTwo ==
    \/ runs = 0 /\ IterStart
    \/ IterResume
    \/ BodyBreak
    \/ IterClose
    \/ OtherStart
    \/ OtherResume
    \/ OtherClose

SpecTwo == InitTwo /\ [][NextTwo]_vars

\* ---------------------------------------------------------------- claims
Last(q) == q[Len(q)]

\* The step in which IterResume appends a sample.
Records == pc = "yielded" /\ Len(times') = Len(times) + 1

\* The step in which the trial loop ends with the caller body returned.
LoopEnds == pc = "yielded" /\ pc' \in {"done", "failed"}

\* measures[s][k] as a one-element sequence, <<>> when there is none
entry(ms, s, k) ==
    IF s \in DOMAIN ms /\ k \in keys(ms[s]) THEN <<lookup(ms[s], k)>> ELSE <<>>

\* C1: in every iteration the recorded sample is the foreground timer's
\* elapsed when the caller scoped the timer in that iteration, and that
\* iteration's background time when it did not - also in runs that mix
\* scoped and unscoped iterations.
C1_SampleIsThisIteration ==
    [][Records =>
         Last(times') = IF scoped THEN elapsed(fg_timer) ELSE elapsed(bg_timer')]_vars

\* C2: on a clock that advances by inc on every read, a full run of a fresh
\* session whose caller never scopes the timer ends with n_loops = num,
\* total_time = num * inc, min = inc, mean = inc and std = 0, for every
\* bestof <= num.
C2_FixedIncrement ==
    pc = "done" =>
        /\ n_loops = num
        /\ total_time = num * inc
        /\ min(times) = inc
        /\ mean(times, bestof).p = inc * mean(times, bestof).n
        /\ std(times, bestof).q = 0

C2_Witness == pc = "done" /\ num >= 3 /\ bestof = 2 /\ inc >= 2

\* C3: when the caller scopes the timer in every iteration and the clock
\* moves by work (plus the inc of the closing read) inside the scope and by
\* amb outside it, every sample is the in-scope advance alone:
\* total_time = num * (work + inc) and min = work + inc.
C3_ForegroundWins ==
    pc = "done" =>
        /\ \A i \in 1..Len(times) : times[i] = work + inc
        /\ total_time = num * (work + inc)
        /\ min(times) = work + inc

C3_Witness == pc = "done" /\ num >= 2 /\ amb > 0 /\ work > 0 /\ amb # work

\* C4: a run of a fresh session whose bodies all return hands out exactly
\* num timers and then ends; the background timer is started at each
\* hand-out, and the bookkeeping (background stop, sample append,
\* total_time add, n_loops increment) runs once per iteration, after the
\* body returned and before the next hand-out, never while the body runs.
C4_Protocol ==
    /\ [](/\ rep <= num
          /\ (pc = "yielded" => n_loops = rep - 1 /\ Len(times) = rep - 1)
          /\ (pc = "done" => rep = num /\ n_loops = num /\ Len(times) = num))
    /\ [][/\ (rep' # rep =>
                /\ rep' = rep + 1
                /\ pc' = "yielded"
                /\ bg_timer'.raw_tstart = time')
          /\ ((pc = "yielded" /\ (rep' # rep \/ pc' # "yielded")) =>
                /\ bg_timer'.raw_elapsed = time' - inc * (rep' - rep)
                                           - bg_timer.raw_tstart
                /\ n_loops' = n_loops + 1
                /\ times' = Append(times, Last(times'))
                /\ total_time' = total_time + Last(times'))
          /\ ((pc = "yielded" /\ pc' = "yielded" /\ rep' = rep) =>
                UNCHANGED <<times, total_time, n_loops, bg_timer>>)]_vars

C4_Witness == pc = "done" /\ num = 3 /\ fg_timer # NewTimer /\ nticks > 0

\* C5: when the iteration protocol finishes without raising,
\* len(times) = num, n_loops = num and every statistic of measures has an
\* entry for the current label.
C5_Complete ==
    pc = "done" =>
        /\ Len(times) = num
        /\ n_loops = num
        /\ \A s \in StatNames : s \in DOMAIN measures /\ label \in keys(measures[s])

C5_Witness == pc = "done" /\ label = "b" /\ num = 2 /\ runs = 2

\* C6: when the number of samples differs from num at the end of the loop
\* (samples of an earlier run were not reset, or the list was truncated),
\* the protocol raises the consistency error, records nothing into
\* measures and prints no report.
C6_Inconsistent ==
    [][(LoopEnds /\ Len(times') # num) =>
          /\ pc' = "failed"
          /\ exc' = "AssertionError"
          /\ measures' = measures
          /\ out' = out]_vars

C6_Witness ==
    /\ pc = "failed"
    /\ Len(times) > num
    /\ verbose > 0
    /\ measures # EmptyMeasures

\* C7: the collector is disabled wherever caller code runs inside the
\* trial loop, and once the loop has ended - by completion, by the
\* consistency error, or by the generator being closed after a break or a
\* caller exception - it is enabled exactly if it was before the loop.
C7_GCRestored ==
    /\ pc = "yielded" => ~gc_enabled
    /\ pc \in {"done", "failed", "closed"} => gc_enabled = gc_before

C7_Witness == pc = "closed" /\ exc = "body" /\ gc_before /\ runs = 2

\* C8: the collector is disabled during the loop when disable_gc is True,
\* and a session constructed with disable_gc=False never changes the
\* collector's state.
C8_DisableGCFlag ==
    /\ (disable_gc /\ pc = "yielded") => ~gc_enabled
    /\ ~disable_gc => gc_enabled = gc_before

\* C9: reset(label=L) with measures left False changes no entry of
\* measures; the run that follows changes only the entries of the current
\* label; reset(measures=True) empties measures.
C9_MeasuresKept ==
    [][/\ \A l \in LabelArgs : Reset(l, FALSE) => measures' = measures
       /\ \A l \in LabelArgs : Reset(l, TRUE) => measures' = EmptyMeasures
       /\ (LoopEnds /\ pc' = "done") =>
             \A s \in StatNames : \A k \in Labels \ {label} :
                 entry(measures', s, k) = entry(measures, s, k)]_vars

C9_Witness ==
    /\ pc = "done"
    /\ "mean" \in DOMAIN measures
    /\ keys(measures["mean"]) = {"a", "b"}
    /\ entry(measures, "mean", "a") # entry(measures, "mean", "b")

C11_CallRaises ==
    /\ [][BodyRaise =>
            /\ pc' = "abandoned"
            /\ exc' = "body"
            /\ fg_timer'.raw_elapsed = time' - fg_timer.raw_tstart
            /\ UNCHANGED <<times, total_time, n_loops, measures, out>>]_vars
    /\ [](exc = "body" =>
            /\ pc \in {"abandoned", "closed"}
            /\ cpos = "out"
            /\ n_loops = rep - 1
            /\ (clean => Len(times) = rep - 1))
    /\ [][(exc = "body" /\ exc' = "body") =>
            UNCHANGED <<times, total_time, n_loops, measures, out, fg_timer,
                        time, rep, cpos>>]_vars

C11_Witness ==
    /\ exc = "body"
    /\ pc = "closed"
    /\ clean
    /\ rep = 3
    /\ Len(times) = 2
    /\ verbose > 0
    /\ measures # EmptyMeasures
    /\ fg_timer.raw_elapsed = 2

\* C12: a Timer used as a scope records its elapsed at the scope's exit,
\* whether the body raised or returned: the interval from the clock reading
\* of the scope's entry to the reading of the exit, never negative; an
\* exception of the body is not suppressed.
C12_ScopeRecords ==
    [][/\ TimerEnter => timer'.raw_tstart = time'
       /\ (cpos = "in" /\ cpos' = "in") => timer' = timer
       /\ \A raised \in BOOLEAN :
             TimerExit(raised) =>
               /\ elapsed(timer') = (time' - timer.raw_tstart) * to_seconds
               /\ elapsed(timer') >= 0
               /\ timer'.raw_tstart = timer.raw_tstart
               /\ (raised => exc' = "body")]_vars

C12_Witness ==
    /\ exc = "body"
    /\ cpos = "out"
    /\ timer.raw_tstart = 3
    /\ timer.raw_elapsed = 2
    /\ inc = 1

\* C13: every toc returns, and stores as elapsed, the clock reading at
\* that toc minus the reading at the most recent tic, in seconds; toc does
\* not move the start, so tocs that follow each other are non-decreasing
\* (inc, 2 * inc, 3 * inc on a clock that only moves by inc per read), and
\* a tic restarts the interval at its own reading.
C13_TicToc ==
    [][/\ TimerTic =>
            /\ timer'.raw_tstart = time'
            /\ timer'.raw_elapsed = timer.raw_elapsed
       /\ TimerToc =>
            /\ ret' = Returned("toc", (time' - timer.raw_tstart) * to_seconds)
            /\ elapsed(timer') = ret'.val
            /\ timer'.raw_tstart = timer.raw_tstart
            /\ (ret.op = "toc" => ret'.val >= ret.val)
            /\ ((ret.op = "toc" /\ nticks = 0) => ret'.val = ret.val + inc)
            /\ ((ret.op = "tic" /\ nticks = 0) => ret'.val = inc)
       /\ (timer'.raw_tstart # timer.raw_tstart) => (TimerTic \/ TimerEnter)]_vars

C13_Witness ==
    /\ ret = Returned("toc", 3)
    /\ timer.raw_tstart = 3
    /\ inc = 1
    /\ nticks = 0

\* The first and last index of chunk i of n samples in chunks of k.
lo(i, k) == (i - 1) * k + 1
hi(i, k, n) == IF i * k <= n THEN i * k ELSE n

\* C14: for N >= 1 samples and chunk size K >= 1, robust_times() returns
\* exactly ceil(N / K) values; the i-th is one of the samples of the i-th
\* run of K consecutive samples (the last run may be shorter) and is <=
\* every sample of that run; the recorded samples are left as they are.
C14_RobustTimes ==
    [][QueryRobustTimes =>
         LET r == ret'.list
             N == Len(times)
             K == bestof
         IN /\ times' = times
            /\ N >= 1 => (Len(r) * K >= N /\ (Len(r) - 1) * K < N)
            /\ \A i \in 1..Len(r) :
                  /\ \E j \in lo(i, K)..hi(i, K, N) : r[i] = times[j]
                  /\ \A j \in lo(i, K)..hi(i, K, N) : r[i] <= times[j]]_vars

C14_Witness ==
    /\ ret = [op |-> "robust_times", list |-> <<0, 2>>]
    /\ times = <<1, 0, 2>>
    /\ bestof = 2

\* The samples ts with sample i raised by d.
raised(ts, i, d) == [ts EXCEPT ![i] = @ + d]

\* Sample i of ts is not the smallest of its chunk of k: another sample of
\* the chunk is at most as large.
NotSmallest(ts, i, k) ==
    \E c \in 1..Len(ts) :
        /\ i \in lo(c, k)..hi(c, k, Len(ts))
        /\ \E j \in lo(c, k)..hi(c, k, Len(ts)) : j # i /\ ts[j] <= ts[i]

\* The smallest sample among ts[a..b].
Smallest(ts, a, b) ==
    CHOOSE v \in {ts[j] : j \in a..b} : \A j \in a..b : v <= ts[j]

\* C15: mean() is the sum of the per-chunk minima divided by the number of
\* chunks and min() is the smallest raw sample; raising a sample that is
\* not the smallest of its chunk changes neither of them.
C15_MeanMin ==
    [][/\ (QueryMean /\ times # <<>>) =>
            LET N == Len(times)
                cnt == (N + bestof - 1) \div bestof
                mins == [c \in 1..cnt |->
                           Smallest(times, lo(c, bestof), hi(c, bestof, N))]
            IN /\ ret'.frac = [n |-> cnt, p |-> Sum(mins)]
               /\ \A i \in 1..N : \A d \in 1..StatTick :
                     NotSmallest(times, i, bestof) =>
                        mean(raised(times, i, d), bestof) = ret'.frac
       /\ (QueryMin /\ times # <<>>) =>
            /\ ret'.val = Smallest(times, 1, Len(times))
            /\ \A i \in 1..Len(times) : \A d \in 1..StatTick :
                  NotSmallest(times, i, bestof) =>
                     min(raised(times, i, d)) = ret'.val]_vars

C15_Witness ==
    /\ ret = [op |-> "mean", frac |-> [n |-> 2, p |-> 1]]
    /\ times = <<2, 0, 1>>
    /\ bestof = 2

\* C16: min(), mean() and std() on a session without samples (fresh or
\* just reset) and consistency on a session without measurements raise
\* instead of returning a value, and leave the session as it was.
C16_EmptyQueries ==
    [][/\ ((QueryMin \/ QueryMean \/ QueryStd) /\ times = <<>>) =>
            /\ "err" \in DOMAIN ret'
            /\ "val" \notin DOMAIN ret'
            /\ UNCHANGED <<config, session>>
       /\ (QueryConsistency /\ measures = EmptyMeasures) =>
            /\ "err" \in DOMAIN ret'
            /\ UNCHANGED <<config, session>>]_vars

C16_Witness ==
    /\ ret = Raised("std", "ZeroDivisionError")
    /\ pc = "idle"
    /\ runs = 1
    /\ n_loops = None
    /\ measures # EmptyMeasures

\* C17: rankings has, for every statistic of measures, exactly the items
\* recorded for it, every label once, in ascending order of the value
\* (fastest first); measures itself is left as it is.
C17_Rankings ==
    [][QueryRankings =>
         LET rk == ret'.rank
         IN /\ measures' = measures
            /\ DOMAIN rk = DOMAIN measures
            /\ \A s \in DOMAIN rk :
                  /\ Len(rk[s]) = Len(measures[s])
                  /\ Cardinality(keys(rk[s])) = Len(rk[s])
                  /\ {rk[s][i] : i \in 1..Len(rk[s])}
                       = {measures[s][i] : i \in 1..Len(measures[s])}
                  /\ \A i, j \in 1..Len(rk[s]) :
                        i < j => ~Less(rk[s][j].v, rk[s][i].v)]_vars

C17_Witness ==
    /\ ret.op = "rankings"
    /\ Len(getstat(measures, "mean")) = 3
    /\ ret.rank["mean"] # measures["mean"]
    /\ ret.rank["mean"][1].k # ret.rank["min"][1].k
    /\ Less(ret.rank["mean"][1].v, ret.rank["mean"][2].v)
    /\ Less(ret.rank["mean"][2].v, ret.rank["mean"][3].v)

\* The pairs of statistics, and the rank positions at which the two
\* rankings of a pair name different labels.
StatPairs == {pr \in SUBSET StatNames : Cardinality(pr) = 2}
Disagreements(rk, L) ==
    {d \in StatPairs \X (1..L) :
       \E s1, s2 \in d[1] : rk[s1][d[2]].k # rk[s2][d[2]].k}

\* C18: with at least one label recorded, consistency is 1 minus the
\* number of (statistic pair, rank position) combinations at which the
\* two rankings differ, divided by pairs times labels; it lies in [0, 1]
\* and is 1 exactly when all statistics rank the labels identically.
C18_Consistency ==
    [][(QueryConsistency /\ measures # EmptyMeasures) =>
         LET rk == rankings(measures)
             L == Len(measures["mean"])
             bits == Cardinality(StatPairs) * L
             sc == ret'.score
         IN /\ sc.n = bits
            /\ sc.n - sc.p = Cardinality(Disagreements(rk, L))
            /\ 0 <= sc.p /\ sc.p <= sc.n /\ sc.n > 0
            /\ (sc.p = sc.n) <=>
                 \A s1, s2 \in StatNames : \A i \in 1..L :
                     rk[s1][i].k = rk[s2][i].k]_vars

C18_Witness ==
    /\ ret.op = "consistency"
    /\ Len(getstat(measures, "mean")) = 3
    /\ ret.score.p > 0
    /\ ret.score.p < ret.score.n

Contradicts ==
    IF ret.op \in Decreases THEN ret.new > ret.old ELSE ret.new < ret.old

\* What the claim says of a directional helper that returned: the decrease
\* variants give (old - new) / old * 100 and the increase variants its
\* negation, never a negative value for old > 0.
ReturnsAsNamed ==
    "val" \in DOMAIN ret =>
        /\ ret.val.p * ret.old
             = (IF ret.op \in Decreases THEN 1 ELSE 0 - 1)
                 * (ret.old - ret.new) * 100 * ret.val.n
        /\ ret.old > 0 => ret.val.p >= 0

\* C20 as stated: a directional helper fails exactly when the arguments
\* contradict its direction, otherwise it returns the percentage as named,
\* and new = old is accepted by both directions with result 0.
C20_FailsExactlyOnContradiction ==
    ret.op \in Decreases \cup Increases =>
        /\ ("err" \in DOMAIN ret) <=> Contradicts
        /\ ReturnsAsNamed
        /\ ret.new = ret.old => ("val" \in DOMAIN ret /\ ret.val.p = 0)

\* C20, amended: for old # 0 a directional helper fails exactly when the
\* arguments contradict its direction, otherwise it returns the percentage
\* as named, and new = old is accepted by both directions with result 0;
\* for old = 0 every call fails (the division by old when the direction
\* check passes).
C20_DirectionalNonzero ==
    ret.op \in Decreases \cup Increases =>
        /\ ret.old # 0 =>
              /\ ("err" \in DOMAIN ret) <=> Contradicts
              /\ ret.new = ret.old => ("val" \in DOMAIN ret /\ ret.val.p = 0)
        /\ ReturnsAsNamed
        /\ ret.old = 0 =>
              /\ "err" \in DOMAIN ret
              /\ ret.err = IF Contradicts THEN "AssertionError"
                           ELSE "ZeroDivisionError"

C20_Witness ==
    /\ ret.op = "percent_slower"
    /\ ret.new = 3
    /\ ret.old = 2
    /\ ret.val = [n |-> 1, p |-> 50]

\* The scale 10^-e is strictly less than the value v of UnitValues (both in
\* half nanoseconds).
ScaleBelow(e, v) == 2 * Pow10(9 - e) < v.p

\* C21: with no forced unit, _choose_unit returns the first of s (1), ms
\* (1e-3), us (1e-6), ns (1e-9), in that order, whose scale is strictly
\* less than the value, and ns when there is none: a value equal to a scale
\* selects the next smaller unit, and any value not greater than 1e-9
\* (0 and negative values too) selects ns.
C21_ChooseUnitScan ==
    (ret.op = "_choose_unit" /\ ret.forced = NoUnit) =>
        /\ "err" \notin DOMAIN ret
        /\ ret.mag.p = 1
        /\ \A k \in 1..Len(UnitNames) :
              (ret.mag.n = Pow10(UnitExp[UnitNames[k]])) <=>
                 /\ \A j \in 1..(k - 1) : ~ScaleBelow(UnitExp[UnitNames[j]], ret.value)
                 /\ (ScaleBelow(UnitExp[UnitNames[k]], ret.value)
                       \/ k = Len(UnitNames))
        /\ \A e \in {0, 3, 6} :
              ret.value.p = 2 * Pow10(9 - e) => ret.mag.n = Pow10(e + 3)
        /\ ret.value.p <= 2 => (ret.mag.n = Pow10(9) /\ ret.suffix = "ns")
        /\ ret.suffix = IF ret.mag.n = Pow10(6)
                        THEN (IF ret.ascii \/ ~ret.encodes THEN "us" ELSE MicroSign)
                        ELSE UnitNames[CHOOSE k \in 1..Len(UnitNames) :
                                         ret.mag.n = Pow10(UnitExp[UnitNames[k]])]

C21_Witness ==
    /\ ret.op = "_choose_unit"
    /\ ret.forced = NoUnit
    /\ ret.value.p = 2 * Pow10(6)
    /\ ret.suffix = "us"
    /\ ret.ascii

Kinds(lines) == [i \in 1..Len(lines) |-> lines[i].kind]
Labelled(lines) ==
    Cardinality({i \in 1..Len(lines) :
                   "label" \in DOMAIN lines[i] /\ lines[i].label = label})

Fragments == {out[i].stats : i \in {j \in 1..Len(out) : "stats" \in DOMAIN out[j]}}

LoopsNeeded(d, i) == (d + i - 1) \div i

\* C24: a session constructed with num=None and a min_duration iterates
\* until total_time first reaches min_duration and then stops: nothing
\* fails, the loop goes on while the total is below min_duration, and it
\* ends with the loops needed (3 loops and a total of 126 for
\* min_duration=100 on a clock that gives every loop 42), which is the
\* loop count the report shows.
C24_MinDuration ==
    (num = None /\ min_duration # None) =>
        /\ pc # "unconstructed"
        /\ exc # "TypeError"
        /\ pc = "yielded" => total_time < min_duration
        /\ pc = "done" =>
              /\ n_loops = LoopsNeeded(min_duration, inc)
              /\ total_time = n_loops * inc
              /\ \A i \in 1..Len(out) :
                    "loops" \in DOMAIN out[i] /\ out[i].kind = "Timed" =>
                        out[i].loops = n_loops

\* C26: after a completed run whose caller scoped the timer and a reset,
\* a run whose caller never scopes the timer records, for each iteration,
\* that iteration's own background time: no sample of the new run is a
\* duration measured during the earlier run.
C26_FreshAfterReset ==
    [][(Records /\ runs = 2) => Last(times') = elapsed(bg_timer')]_vars

\* C27: with two sessions interleaved on one thread, the collector stays
\* disabled as long as the trial loop of either is active, and once both
\* loops have ended it is enabled exactly if it was before the first of
\* them began.
C27_TwoSessions ==
    /\ (pc = "yielded" \/ other.pc = "yielded") => ~gc_enabled
    /\ (pc \in {"done", "closed"} /\ other.pc \in {"done", "closed"}) =>
          gc_enabled = IF other.lead THEN other.prev ELSE gc_before

\* C28: in a run of a session that was fresh or reset before it (and whose
\* samples the caller leaves alone), at every suspension of the trial loop
\* and after its end n_loops = len(times) and total_time = sum(times);
\* during the k-th caller body n_loops is k - 1; n_loops never decreases
\* during a run.
C28_LoopCounters ==
    /\ []((clean /\ pc \in {"yielded", "abandoned", "closed", "done", "failed"}) =>
             /\ n_loops = Len(times)
             /\ total_time = Sum(times))
    /\ []((clean /\ pc = "yielded") => n_loops = rep - 1)
    /\ [][(pc = "yielded" /\ n_loops' # None) => n_loops' >= n_loops]_vars

C28_Witness ==
    /\ pc = "done"
    /\ clean
    /\ runs = 2
    /\ times = <<1, 0>>
    /\ n_loops = 2
    /\ total_time = 1


\* The four statistics of a finished sample list, as _record_measurement
\* computes them.
RunStats(ts, k) ==
    [s \in StatNames |->
       CASE s = "mean" -> Val(mean(ts, k).p, mean(ts, k).n, 0, 0)
         [] s = "min" -> Val(min(ts), 1, 0, 0)
         [] s = "mean-std" -> Val(mean(ts, k).p, mean(ts, k).n, std(ts, k).q, -1)
         [] s = "mean+std" -> Val(mean(ts, k).p, mean(ts, k).n, std(ts, k).q, 1)]

\* The four statistic maps name the same labels, each label once.
SameLabels ==
    /\ DOMAIN measures \in {{}, StatNames}
    /\ \A s \in DOMAIN measures :
          /\ keys(measures[s]) = keys(measures["mean"])
          /\ Cardinality(keys(measures[s])) = Len(measures[s])

\* The step `when` files the statistics of the run's samples under the
\* current label and leaves the entries of every other label alone.
Files(when) ==
    when => \A s \in StatNames :
               /\ entry(measures', s, label) = <<RunStats(times', bestof)[s]>>
               /\ \A k \in Labels \ {label} :
                     entry(measures', s, k) = entry(measures, s, k)

\* The trial loop ends with num samples: _record_measurement is reached.
Measured == LoopEnds /\ Len(times') = num

\* C29 as stated: the four statistic maps name the same labels, the
\* entries of a label are the statistics of the latest completed run under
\* it (overwritten, never duplicated), and a run that is abandoned early
\* or fails adds or changes no entry of measures.
C29_CompletedRunsOnly ==
    /\ []SameLabels
    /\ [][/\ Files(LoopEnds /\ pc' = "done")
          /\ (\/ LoopEnds /\ pc' = "done"
              \/ \E l \in LabelArgs : Reset(l, TRUE)
              \/ measures' = measures)]_vars

\* C29: the four statistic maps name the same labels, the entries of a
\* label are the statistics of the latest run under it whose trial loop
\* ended with num samples (overwritten, never duplicated), and a run that
\* is abandoned early or fails before that point changes no entry; a run
\* that fails only in printing its closing report has filed its entries.
C29_MeasuredRunsOnly ==
    /\ []SameLabels
    /\ [][/\ Files(Measured)
          /\ (\/ Measured
              \/ \E l \in LabelArgs : Reset(l, TRUE)
              \/ measures' = measures)]_vars

C29_Witness ==
    /\ pc = "failed"
    /\ exc = "KeyError"
    /\ runs = 2
    /\ label = "a"
    /\ Len(getstat(measures, "mean")) = 1
    /\ entry(measures, "mean", "a") = <<Val(1, 2, 0, 0)>>
    /\ times = <<1, 0>>


\* The (new, old) pairs that summary hands to percent_faster: every item
\* of rankings['mean'], walked from the slowest to the fastest, with the
\* item before it, when the label before it is truthy.
FasterCalls(ms) ==
    LET items == Reverse(rankings(ms)["mean"])
    IN {[new |-> Frac(items[i].v.p, items[i].v.n),
         old |-> Frac(items[i - 1].v.p, items[i - 1].v.n)] :
          i \in {j \in 2..Len(items) : Truthy(items[j - 1].k)}}

\* C30: for any recorded measures, labels of equal mean included, every
\* percent_faster(new, old) call made by summary has new <= old, and
\* summary never fails with the helper's directional assertion.
C30_SummaryDirection ==
    [][\A stat \in {"mean", "min"} :
         (QuerySummary(stat) /\ measures # EmptyMeasures) =>
            /\ \A c \in FasterCalls(measures) : FracLE(c.new, c.old)
            /\ "err" \in DOMAIN ret' => ret'.err # "AssertionError"]_vars

C30_Witness ==
    /\ ret.op = "summary"
    /\ "lines" \in DOMAIN ret
    /\ Len(ret.lines) = 2
    /\ ret.lines[1].pcnt > 0
    /\ ret.lines[2].pcnt = 0
    /\ Cardinality(FasterCalls(measures)) = 2

====
